---- MODULE Spec2Model ----
(***************************************************************************)
(* Model of scripts/viz.py: the one-shot batch script that loads the       *)
(* charges and provider-locations tables, harmonises them into one frame,  *)
(* derives the Sankey / treemap / heat-map aggregates and writes the chart *)
(* documents and the dashboard.                                            *)
(*                                                                         *)
(* A table (DataFrame) is [cols |-> sequence of column names,              *)
(*                         rows |-> sequence of rows],                     *)
(* a row being a function from column name to cell.  Text cells are        *)
(* strings, the missing text cell is NaN; numeric cells after coercion are *)
(* Num(v) or NaNum.  Charge amounts of the model are multiples of 100, so  *)
(* the midpoint of two of them is an integer.                              *)
(***************************************************************************)
EXTENDS Integers, Sequences, FiniteSets, TLC

VARIABLES pc, buildDir, chargesExists, locExists, csvCharges, csvLoc,
          charges, loc, df, sankey, treemap, heat, figIdx, outputs,
          kpiFile, kpi_div, dashboard_html, browserOpened, exitMsg

vars == <<pc, buildDir, chargesExists, locExists, csvCharges, csvLoc,
          charges, loc, df, sankey, treemap, heat, figIdx, outputs,
          kpiFile, kpi_div, dashboard_html, browserOpened, exitMsg>>

\* Largest number of rows of the charges table.
MaxRows == 2

----------------------------------------------------------------------------
\* Generic helpers

Range(s) == {s[i] : i \in 1..Len(s)}

\* Position of the first occurrence of v in s (0 when absent).
FirstPos(s, v) ==
  IF v \in Range(s) THEN CHOOSE i \in 1..Len(s) : s[i] = v /\ \A j \in 1..(i - 1) : s[j] # v
  ELSE 0

RECURSIVE Concat(_)
Concat(ss) == IF ss = <<>> THEN <<>> ELSE Head(ss) \o Concat(Tail(ss))

\* All sequences over S of length 1..n.
SeqsUpTo(S, n) == UNION {[1..k -> S] : k \in 1..n}

----------------------------------------------------------------------------
\* Cells

NaN == "NaN"
Num(v) == [nan |-> FALSE, v |-> v]
NaNum == [nan |-> TRUE, v |-> 0]

\* pd.to_numeric(..., errors="coerce") on one cell: the number the text
\* denotes, the missing-value marker when it denotes none.
ToNumeric(cell) ==
  CASE cell = "100" -> Num(100)
    [] cell = "200" -> Num(200)
    [] cell = "300" -> Num(300)
    [] cell = "30"  -> Num(30)
    [] cell = "32"  -> Num(32)
    [] cell = "31"  -> Num(31)
    [] cell = "-88" -> Num(0 - 88)
    [] cell = "-85" -> Num(0 - 85)
    [] OTHER -> NaNum

\* str.lower() on the column names of the model.
Lower(c) ==
  CASE c = "Amount_Charged" -> "amount_charged"
    [] OTHER -> c

\* Code-point order of the text values of the model (Python's str order,
\* the order groupby sorts its keys in).
SortedNames == <<"Auburn", "CABG", "Cardiology", "Chemo", "Dothan", "Medicare",
                 "Mobile", "Oncology", "Private", "Stent", "Unknown City">>

Rank(name) == FirstPos(SortedNames, name)

----------------------------------------------------------------------------
\* Tables

NoTable == [cols |-> <<>>, rows |-> <<>>]

Column(tbl, c) == [i \in 1..Len(tbl.rows) |-> tbl.rows[i][c]]

\* DataFrame.rename(columns={old: new}): the column keeps its place and cells.
RenameCol(tbl, old, new) ==
  LET cols == [i \in 1..Len(tbl.cols) |-> IF tbl.cols[i] = old THEN new ELSE tbl.cols[i]]
  IN  [cols |-> cols,
       rows |-> [i \in 1..Len(tbl.rows) |->
                   [c \in Range(cols) |-> IF c = new THEN tbl.rows[i][old]
                                                     ELSE tbl.rows[i][c]]]]

\* df[c] = value: a new last column holding the same value in every row.
AddConstCol(tbl, c, value) ==
  [cols |-> Append(tbl.cols, c),
   rows |-> [i \in 1..Len(tbl.rows) |->
               [k \in Range(tbl.cols) \cup {c} |-> IF k = c THEN value
                                                            ELSE tbl.rows[i][k]]]]

\* df[c] = pd.to_numeric(df[c], errors="coerce"), cell by cell.
CoerceCol(tbl, c) ==
  [cols |-> tbl.cols,
   rows |-> [i \in 1..Len(tbl.rows) |->
               [k \in Range(tbl.cols) |-> IF k = c THEN ToNumeric(tbl.rows[i][k])
                                                   ELSE tbl.rows[i][k]]]]

----------------------------------------------------------------------------
\* Input files of the model

\* One line of charges.csv before projection on the file's columns.
ChargePool ==
  { [provider_id |-> 1,  city |-> "Mobile", lat |-> "30", lon |-> "-88",
     payer_type |-> "Private",  procedure_category |-> "Cardiology",
     procedure_sub |-> "Stent", amount |-> "100"],
    [provider_id |-> 1,  city |-> "Mobile", lat |-> "30", lon |-> "-88",
     payer_type |-> "Private",  procedure_category |-> "Cardiology",
     procedure_sub |-> "CABG",  amount |-> "300"],
    [provider_id |-> 99, city |-> "Dothan", lat |-> "31", lon |-> "-85",
     payer_type |-> "Private",  procedure_category |-> "Cardiology",
     procedure_sub |-> "Stent", amount |-> "300"],
    [provider_id |-> 2,  city |-> "Auburn", lat |-> "32", lon |-> "-85",
     payer_type |-> "Medicare", procedure_category |-> "Oncology",
     procedure_sub |-> "Chemo", amount |-> "n/a"],
    [provider_id |-> 2,  city |-> "Auburn", lat |-> "32", lon |-> "-85",
     payer_type |-> "Medicare", procedure_category |-> "Cardiology",
     procedure_sub |-> "Stent", amount |-> "200"] }

\* Names the charge-amount column goes by ("amount" holds no 'charge').
AmountNames == {"charge", "charge_amount", "Amount_Charged", "amount"}

GeoCols == <<"city", "lat", "lon">>

ChargesCols(hasId, hasGeo, amountName) ==
  (IF hasId THEN <<"provider_id">> ELSE <<>>)
    \o (IF hasGeo THEN GeoCols ELSE <<>>)
    \o <<"payer_type", "procedure_category", "procedure_sub", amountName>>

ChargesTable(cols, lines) ==
  [cols |-> cols,
   rows |-> [i \in 1..Len(lines) |->
               [c \in Range(cols) |->
                  CASE c = "provider_id" -> lines[i].provider_id
                    [] c = "city" -> lines[i].city
                    [] c = "lat" -> lines[i].lat
                    [] c = "lon" -> lines[i].lon
                    [] c = "payer_type" -> lines[i].payer_type
                    [] c = "procedure_category" -> lines[i].procedure_category
                    [] c = "procedure_sub" -> lines[i].procedure_sub
                    [] OTHER -> lines[i].amount]]]

ChargesFiles ==
  { ChargesTable(ChargesCols(hasId, hasGeo, name), lines) :
      hasId \in BOOLEAN, hasGeo \in BOOLEAN, name \in AmountNames,
      lines \in SeqsUpTo(ChargePool, MaxRows) }

\* provider_locations.csv: provider identifiers unique, or one repeated.
ProviderLines ==
  { << [provider_id |-> 1, city |-> "Mobile", lat |-> "30", lon |-> "-88"],
       [provider_id |-> 2, city |-> "Auburn", lat |-> "32", lon |-> "-85"] >>,
    << [provider_id |-> 1, city |-> "Mobile", lat |-> "30", lon |-> "-88"],
       [provider_id |-> 1, city |-> "Dothan", lat |-> "31", lon |-> "-85"] >> }

LocCols(hasId, hasGeo) ==
  (IF hasId THEN <<"provider_id">> ELSE <<>>) \o (IF hasGeo THEN GeoCols ELSE <<"provider_name">>)

LocTable(cols, lines) ==
  [cols |-> cols,
   rows |-> [i \in 1..Len(lines) |->
               [c \in Range(cols) |->
                  CASE c = "provider_id" -> lines[i].provider_id
                    [] c = "city" -> lines[i].city
                    [] c = "lat" -> lines[i].lat
                    [] c = "lon" -> lines[i].lon
                    [] OTHER -> "Med"]]]

LocFiles ==
  { LocTable(LocCols(hasId, hasGeo), lines) :
      hasId \in BOOLEAN, hasGeo \in BOOLEAN, lines \in ProviderLines }

----------------------------------------------------------------------------
\* 2. Load & harmonise

NoCol == ""

\* Variant matching the column name exactly.
ContainsCharge_exact(c) == c = "charge"

\* "charge" in c.lower(), on the column names of the model.
ContainsCharge(c) == Lower(c) \in {"charge", "charge_amount", "amount_charged"}

\* next((c for c in cols if ...), None), hits being the columns that pass
\* the test, in column order.
FirstMatching(hits) == IF hits = <<>> THEN NoCol ELSE Head(hits)

FindChargeCol(cols) == FirstMatching(SelectSeq(cols, ContainsCharge))

NormaliseChargeCol(tbl) ==
  LET charge_col == FindChargeCol(tbl.cols)
  IN  IF charge_col # "charge" THEN RenameCol(tbl, charge_col, "charge") ELSE tbl

HasProviderId(c, l) == "provider_id" \in Range(c.cols) /\ "provider_id" \in Range(l.cols)

\* Name a non-key column takes in the merged frame: suffixed when both
\* tables define it.
MergedName(c, otherCols, suffix) ==
  IF c # "provider_id" /\ c \in Range(otherCols) THEN c \o suffix ELSE c

\* Right rows the left join pairs with a left row: every row with the same
\* key, in the right table's order.
Matches(l, right) == SelectSeq(right.rows, LAMBDA r : r["provider_id"] = l["provider_id"])

\* Variant joining as an inner join: a left row with no partner is dropped.
JoinedRows_inner(l, right) ==
  LET m == Matches(l, right)
  IN  [i \in 1..Len(m) |-> [l |-> l, hit |-> TRUE, r |-> m[i]]]

\* A left row with no partner is kept once, its right-hand cells missing.
JoinedRows(l, right) ==
  LET m == Matches(l, right)
  IN  IF m = <<>> THEN << [l |-> l, hit |-> FALSE, r |-> l] >>
      ELSE [i \in 1..Len(m) |-> [l |-> l, hit |-> TRUE, r |-> m[i]]]

\* charges.merge(loc, on="provider_id", how="left")
MergeLeft(left, right) ==
  LET rkeep == SelectSeq(right.cols, LAMBDA c : c # "provider_id")
      lcols == [i \in 1..Len(left.cols) |-> MergedName(left.cols[i], right.cols, "_x")]
      rcols == [i \in 1..Len(rkeep) |-> MergedName(rkeep[i], left.cols, "_y")]
      cols  == lcols \o rcols
      pairs == Concat([i \in 1..Len(left.rows) |-> JoinedRows(left.rows[i], right)])
      Cell(p, c) ==
        IF c \in Range(lcols) THEN p.l[left.cols[FirstPos(lcols, c)]]
        ELSE IF p.hit THEN p.r[rkeep[FirstPos(rcols, c)]]
        ELSE NaN
  IN  [cols |-> cols,
       rows |-> [i \in 1..Len(pairs) |-> [c \in Range(cols) |-> Cell(pairs[i], c)]]]

\* re.fullmatch(r"city(_[xy])?", c, flags=re.I) on the column names of the model
CityPattern(c) == c \in {"city", "city_x", "city_y"}
\* re.fullmatch(r"lat(_[xy])?", c, flags=re.I)
LatPattern(c) == c \in {"lat", "lat_x", "lat_y"}
\* re.fullmatch(r"(lon|lng)(_?[xy])?", c, flags=re.I)
LonPattern(c) ==
  c \in {"lon", "lonx", "lony", "lon_x", "lon_y", "lng", "lngx", "lngy", "lng_x", "lng_y"}

ResolveCity(tbl) ==
  IF "provider_city" \in Range(tbl.cols) THEN tbl
  ELSE LET city_col == FirstMatching(SelectSeq(tbl.cols, CityPattern))
       IN  IF city_col # NoCol THEN RenameCol(tbl, city_col, "provider_city")
           ELSE AddConstCol(tbl, "provider_city", "Unknown City")

\* One pass of the loop over (wanted, pattern), alt being the first column
\* matching the pattern.
ResolveCoord(tbl, wanted, alt) ==
  IF wanted \in Range(tbl.cols) THEN tbl
  ELSE IF alt # NoCol THEN RenameCol(tbl, alt, wanted) ELSE tbl

ResolveLat(tbl) == ResolveCoord(tbl, "lat", FirstMatching(SelectSeq(tbl.cols, LatPattern)))

ResolveLon(tbl) == ResolveCoord(tbl, "lon", FirstMatching(SelectSeq(tbl.cols, LonPattern)))

RenameIfPresent(tbl, old, new) ==
  IF old \in Range(tbl.cols) THEN RenameCol(tbl, old, new) ELSE tbl

RenameProcedureCols(tbl) ==
  RenameIfPresent(RenameIfPresent(tbl, "procedure_category", "proc_category"),
                  "procedure_sub", "proc_subcategory")

CoerceIfPresent(tbl, col) ==
  IF col \in Range(tbl.cols) THEN CoerceCol(tbl, col) ELSE tbl

CoerceNumeric(tbl) ==
  CoerceIfPresent(CoerceIfPresent(CoerceIfPresent(tbl, "charge"), "lat"), "lon")

\* Lines 62-90 applied to the merged frame.
Harmonise(merged) ==
  CoerceNumeric(
    RenameProcedureCols(
      ResolveLon(ResolveLat(ResolveCity(merged)))))

----------------------------------------------------------------------------
\* 3. Aggregates

RECURSIVE Unique(_)
\* Series.unique(): the distinct values in order of first appearance.
Unique(s) ==
  IF s = <<>> THEN <<>>
  ELSE LET u == Unique(SubSeq(s, 1, Len(s) - 1))
           x == s[Len(s)]
       IN  IF x \in Range(u) THEN u ELSE Append(u, x)

RECURSIVE SumCharge(_)
\* Series.sum(): missing values are skipped, the empty sum is 0.
SumCharge(cells) ==
  IF cells = <<>> THEN 0
  ELSE (IF Head(cells).nan THEN 0 ELSE Head(cells).v) + SumCharge(Tail(cells))

\* The rows of the group with the given values in the given columns.
GroupRows(tbl, keyCols, key) ==
  SelectSeq(tbl.rows, LAMBDA r : \A i \in 1..Len(keyCols) : r[keyCols[i]] = key[i])

GroupCharges(tbl, keyCols, key) ==
  LET g == GroupRows(tbl, keyCols, key) IN [i \in 1..Len(g) |-> g[i]["charge"]]

\* groupby keys: the value tuples of the rows none of whose key cells is
\* missing (dropna).
GroupKeys(tbl, keyCols) ==
  { [i \in 1..Len(keyCols) |-> tbl.rows[k][keyCols[i]]] :
      k \in { j \in 1..Len(tbl.rows) :
                \A i \in 1..Len(keyCols) : tbl.rows[j][keyCols[i]] # NaN } }

\* Lexicographic order of two key tuples of equal length.
KeyLess(a, b) ==
  \E i \in 1..Len(a) : /\ Rank(a[i]) < Rank(b[i])
                       /\ \A j \in 1..(i - 1) : a[j] = b[j]

RECURSIVE SortKeys(_)
\* groupby(sort=True): the keys in ascending order.
SortKeys(S) ==
  IF S = {} THEN <<>>
  ELSE LET m == CHOOSE x \in S : \A y \in S \ {x} : KeyLess(x, y)
       IN  <<m>> \o SortKeys(S \ {m})

\* df.groupby([a, b], as_index=False)["charge"].sum()
GroupSum(tbl, keyCols) ==
  LET keys == SortKeys(GroupKeys(tbl, keyCols))
  IN  [i \in 1..Len(keys) |->
         [key |-> keys[i], charge |-> SumCharge(GroupCharges(tbl, keyCols, keys[i]))]]

sankey_dims == <<"payer_type", "proc_category", "provider_city">>

AllNodes(tbl) == Unique(Concat([i \in 1..Len(sankey_dims) |-> Column(tbl, sankey_dims[i])]))

\* Variant counting positions from 1.
NodeIdx_oneBased(all_nodes, name) == FirstPos(all_nodes, name)

\* node_idx[name]: positions count from 0.
NodeIdx(all_nodes, name) == FirstPos(all_nodes, name) - 1

\* One pass of the loop over adjacent dimensions: the triples of one stage.
StageLinks(tbl, all_nodes, a, b) ==
  LET g == GroupSum(tbl, <<a, b>>)
  IN  [i \in 1..Len(g) |-> [source |-> NodeIdx(all_nodes, g[i].key[1]),
                            target |-> NodeIdx(all_nodes, g[i].key[2]),
                            value  |-> g[i].charge]]

BuildSankey(tbl) ==
  LET all_nodes == AllNodes(tbl)
      links == Concat([i \in 1..(Len(sankey_dims) - 1) |->
                         StageLinks(tbl, all_nodes, sankey_dims[i], sankey_dims[i + 1])])
  IN  [all_nodes |-> all_nodes,
       src |-> [i \in 1..Len(links) |-> links[i].source],
       trg |-> [i \in 1..Len(links) |-> links[i].target],
       val |-> [i \in 1..Len(links) |-> links[i].value]]

NoSankey == [all_nodes |-> <<>>, src |-> <<>>, trg |-> <<>>, val |-> <<>>]

treemap_path == <<"proc_category", "proc_subcategory", "payer_type">>

\* Variant sizing a leaf by the first charge of its group only.
BuildTreemap_first(tbl) ==
  { [path |-> k, value |-> SumCharge(SubSeq(GroupCharges(tbl, treemap_path, k), 1, 1))] :
      k \in GroupKeys(tbl, treemap_path) }

\* px.treemap(df, path=..., values="charge"): the leaf sectors, one per
\* full path, sized by the summed charge.
BuildTreemap(tbl) ==
  { [path |-> k, value |-> SumCharge(GroupCharges(tbl, treemap_path, k))] :
      k \in GroupKeys(tbl, treemap_path) }

RECURSIVE SortNums(_)
SortNums(s) ==
  IF s = <<>> THEN <<>>
  ELSE LET i == CHOOSE i \in 1..Len(s) : \A j \in 1..Len(s) : s[i] <= s[j]
       IN  <<s[i]>> \o SortNums(SubSeq(s, 1, i - 1) \o SubSeq(s, i + 1, Len(s)))

\* Series.median(): the middle of the sorted non-missing values, the mean
\* of the two middle ones when their number is even, missing when none.
Median(cells) ==
  LET present == SelectSeq(cells, LAMBDA c : ~c.nan)
      s == SortNums([i \in 1..Len(present) |-> present[i].v])
      n == Len(s)
  IN  IF n = 0 THEN NaNum
      ELSE IF n % 2 = 1 THEN Num(s[(n + 1) \div 2])
      ELSE Num((s[n \div 2] + s[n \div 2 + 1]) \div 2)

heat_keys == <<"provider_city", "proc_category">>

\* .fillna(0) on one cell
FillNa(cell) == IF cell.nan THEN 0 ELSE cell.v

\* groupby(...).median().reset_index().pivot(index, columns, values): one
\* row per grouped city, one column per grouped category, the cell of a
\* combination without group missing.
PivotMedian(tbl) ==
  LET keys == GroupKeys(tbl, heat_keys)
      index == SortKeys({<<k[1]>> : k \in keys})
      columns == SortKeys({<<k[2]>> : k \in keys})
  IN  [index |-> [i \in 1..Len(index) |-> index[i][1]],
       columns |-> [i \in 1..Len(columns) |-> columns[i][1]],
       cell |-> [p \in {<<k[1], c[1]>> : k \in keys, c \in Range(columns)} |->
                   IF p \in keys THEN Median(GroupCharges(tbl, heat_keys, p))
                   ELSE NaNum]]

BuildHeat(tbl) ==
  LET pv == PivotMedian(tbl)
  IN  [index |-> pv.index, columns |-> pv.columns,
       cell |-> [p \in DOMAIN pv.cell |-> FillNa(pv.cell[p])]]

NoHeat == [index |-> <<>>, columns |-> <<>>, cell |-> <<>>]

----------------------------------------------------------------------------
\* 4.-7. Export, KPI snippet, dashboard

\* FIGS in insertion order.
FIGS == << [fname |-> "fig_sankey.html",  fig |-> "sankey_fig"],
           [fname |-> "fig_treemap.html", fig |-> "treemap_fig"],
           [fname |-> "fig_heatmap.html", fig |-> "heatmap_fig"] >>

\* kpi.json as found on disk.
KpiFiles ==
  { [exists |-> FALSE, json |-> "none", items |-> <<>>],
    [exists |-> TRUE, json |-> "invalid", items |-> <<>>],
    [exists |-> TRUE, json |-> "list", items |-> <<>>],
    [exists |-> TRUE, json |-> "mapping",
     items |-> << [k |-> "average_charge", v |-> [type |-> "number", n |-> 1234567]] >>],
    [exists |-> TRUE, json |-> "mapping",
     items |-> << [k |-> "average_charge", v |-> [type |-> "string", n |-> 0]] >>],
    [exists |-> TRUE, json |-> "mapping",
     items |-> << [k |-> "rows", v |-> [type |-> "number", n |-> 950]],
                  [k |-> "average_charge", v |-> [type |-> "null", n |-> 0]] >>] }

RECURSIVE Thousands(_)
\* The digit groups of n under the "," format: 1234567 is <<1, 234, 567>>.
Thousands(n) == IF n < 1000 THEN <<n>> ELSE Append(Thousands(n \div 1000), n % 1000)

\* f"{v:,}" raises for a value that is no number.
Formattable(v) == v.type = "number"

KpiRow(item) == [k |-> item.k, v |-> Thousands(item.v.n)]

\* The try block of section 5: the text of kpi_div, <<>> standing for "".
\* Any exception (file absent, invalid JSON, no .items(), a value the
\* format rejects) leaves kpi_div as initialised.
KpiSnippet(file) ==
  IF ~file.exists \/ file.json # "mapping" THEN <<>>
  ELSE IF \E i \in 1..Len(file.items) : ~Formattable(file.items[i].v) THEN <<>>
  ELSE << [h3 |-> "Key Metrics",
           rows |-> [i \in 1..Len(file.items) |-> KpiRow(file.items[i])]] >>

\* fig_div(fig): the chart body of a figure.
fig_div(fig) == [body |-> fig]

DashboardHtml(kpi) ==
  [kpi_div |-> kpi,
   cards |-> <<fig_div("sankey_fig"), fig_div("treemap_fig"), fig_div("heatmap_fig")>>]

NoHtml == [kpi_div |-> <<>>, cards |-> <<>>]

----------------------------------------------------------------------------
\* The run

Init ==
  /\ pc = "start"
  /\ buildDir = FALSE
  /\ chargesExists = FALSE
  /\ locExists = FALSE
  /\ csvCharges = NoTable
  /\ csvLoc = NoTable
  /\ charges = NoTable
  /\ loc = NoTable
  /\ df = NoTable
  /\ sankey = NoSankey
  /\ treemap = {}
  /\ heat = NoHeat
  /\ figIdx = 0
  /\ outputs = <<>>
  /\ kpiFile = [exists |-> FALSE, json |-> "none", items |-> <<>>]
  /\ kpi_div = <<>>
  /\ dashboard_html = NoHtml
  /\ browserOpened = FALSE
  /\ exitMsg = ""

\* Variant that forgets the provider-locations file.
RequiredMissing_chargesOnly(ce, le) == ~ce

\* for p in (PATH_CHARGES, PATH_LOC): if not p.exists()
RequiredMissing(ce, le) == ~ce \/ ~le

\* Section 1: create the output folder, then require both input files.
CheckFiles ==
  /\ pc = "start"
  /\ \E ce \in BOOLEAN, le \in BOOLEAN :
       /\ chargesExists' = ce
       /\ locExists' = le
       /\ IF RequiredMissing(ce, le)
          THEN pc' = "exit" /\ exitMsg' = "Required file missing"
          ELSE pc' = "load" /\ exitMsg' = exitMsg
  /\ buildDir' = TRUE
  /\ UNCHANGED <<csvCharges, csvLoc, charges, loc, df, sankey, treemap, heat, figIdx,
                 outputs, kpiFile, kpi_div, dashboard_html, browserOpened>>

\* pd.read_csv of the two tables.
Load ==
  /\ pc = "load"
  /\ \E c \in ChargesFiles, l \in LocFiles :
       /\ csvCharges' = c /\ charges' = c
       /\ csvLoc' = l /\ loc' = l
  /\ pc' = "normalise"
  /\ UNCHANGED <<buildDir, chargesExists, locExists, df, sankey, treemap, heat, figIdx,
                 outputs, kpiFile, kpi_div, dashboard_html, browserOpened, exitMsg>>

\* Normalise the charge column, or stop when there is none.
NormaliseCharge ==
  /\ pc = "normalise"
  /\ IF FindChargeCol(charges.cols) = NoCol
     THEN /\ pc' = "exit"
          /\ exitMsg' = "No column containing the word 'charge' found."
          /\ charges' = charges
     ELSE /\ pc' = "merge"
          /\ exitMsg' = exitMsg
          /\ charges' = NormaliseChargeCol(charges)
  /\ UNCHANGED <<buildDir, chargesExists, locExists, csvCharges, csvLoc, loc, df, sankey,
                 treemap, heat, figIdx, outputs, kpiFile, kpi_div, dashboard_html,
                 browserOpened>>

\* Merge with the location table, or stop when the key is missing.
Merge ==
  /\ pc = "merge"
  /\ IF ~HasProviderId(charges, loc)
     THEN /\ pc' = "exit"
          /\ exitMsg' = "Both CSVs must contain provider_id for merging."
          /\ df' = df
     ELSE /\ pc' = "harmonise"
          /\ exitMsg' = exitMsg
          /\ df' = MergeLeft(charges, loc)
  /\ UNCHANGED <<buildDir, chargesExists, locExists, csvCharges, csvLoc, charges, loc,
                 sankey, treemap, heat, figIdx, outputs, kpiFile, kpi_div, dashboard_html,
                 browserOpened>>

\* City / lat / lon handling, procedure renames, numeric coercions.
HarmoniseStep ==
  /\ pc = "harmonise"
  /\ df' = Harmonise(df)
  /\ pc' = "sankey"
  /\ UNCHANGED <<buildDir, chargesExists, locExists, csvCharges, csvLoc, charges, loc,
                 sankey, treemap, heat, figIdx, outputs, kpiFile, kpi_div, dashboard_html,
                 browserOpened, exitMsg>>

SankeyStep ==
  /\ pc = "sankey"
  /\ sankey' = BuildSankey(df)
  /\ pc' = "treemap"
  /\ UNCHANGED <<buildDir, chargesExists, locExists, csvCharges, csvLoc, charges, loc, df,
                 treemap, heat, figIdx, outputs, kpiFile, kpi_div, dashboard_html,
                 browserOpened, exitMsg>>

TreemapStep ==
  /\ pc = "treemap"
  /\ treemap' = BuildTreemap(df)
  /\ pc' = "heatmap"
  /\ UNCHANGED <<buildDir, chargesExists, locExists, csvCharges, csvLoc, charges, loc, df,
                 sankey, heat, figIdx, outputs, kpiFile, kpi_div, dashboard_html,
                 browserOpened, exitMsg>>

HeatmapStep ==
  /\ pc = "heatmap"
  /\ heat' = BuildHeat(df)
  /\ pc' = "export"
  /\ UNCHANGED <<buildDir, chargesExists, locExists, csvCharges, csvLoc, charges, loc, df,
                 sankey, treemap, figIdx, outputs, kpiFile, kpi_div, dashboard_html,
                 browserOpened, exitMsg>>

\* One pass of the loop over FIGS: write the next standalone chart.
ExportFig ==
  /\ pc = "export"
  /\ figIdx < Len(FIGS)
  /\ figIdx' = figIdx + 1
  /\ outputs' = Append(outputs, [name |-> "outputs/" \o FIGS[figIdx + 1].fname,
                                 content |-> FIGS[figIdx + 1].fig])
  /\ pc' = IF figIdx + 1 = Len(FIGS) THEN "kpi" ELSE "export"
  /\ UNCHANGED <<buildDir, chargesExists, locExists, csvCharges, csvLoc, charges, loc, df,
                 sankey, treemap, heat, kpiFile, kpi_div, dashboard_html, browserOpened,
                 exitMsg>>

\* Section 5: the optional KPI block.
KpiStep ==
  /\ pc = "kpi"
  /\ \E f \in KpiFiles :
       /\ kpiFile' = f
       /\ kpi_div' = KpiSnippet(f)
  /\ pc' = "dashboard"
  /\ UNCHANGED <<buildDir, chargesExists, locExists, csvCharges, csvLoc, charges, loc, df,
                 sankey, treemap, heat, figIdx, outputs, dashboard_html, browserOpened,
                 exitMsg>>

\* Section 6: assemble and write dashboard.html.
WriteDashboard ==
  /\ pc = "dashboard"
  /\ dashboard_html' = DashboardHtml(kpi_div)
  /\ outputs' = Append(outputs, [name |-> "outputs/dashboard.html", content |-> "dashboard_html"])
  /\ pc' = "open"
  /\ UNCHANGED <<buildDir, chargesExists, locExists, csvCharges, csvLoc, charges, loc, df,
                 sankey, treemap, heat, figIdx, kpiFile, kpi_div, browserOpened, exitMsg>>

\* Section 7: open the dashboard unless --no-browser was given.
AutoOpen ==
  /\ pc = "open"
  /\ \E noBrowser \in BOOLEAN : browserOpened' = ~noBrowser
  /\ pc' = "golden_html"
  /\ UNCHANGED <<buildDir, chargesExists, locExists, csvCharges, csvLoc, charges, loc, df,
                 sankey, treemap, heat, figIdx, outputs, kpiFile, kpi_div, dashboard_html,
                 exitMsg>>

\* Files the trailing statements write with fig, the loop variable left by
\* the export loop.
GoldenHtmlFile == <<[name |-> "./golden_image.html", content |-> FIGS[Len(FIGS)].fig]>>

\* fig.write_html("./golden_image.html")
GoldenHtml ==
  /\ pc = "golden_html"
  /\ outputs' = outputs \o GoldenHtmlFile
  /\ pc' = "golden_png"
  /\ UNCHANGED <<buildDir, chargesExists, locExists, csvCharges, csvLoc, charges, loc, df,
                 sankey, treemap, heat, figIdx, kpiFile, kpi_div, dashboard_html,
                 browserOpened, exitMsg>>

\* fig.write_image("./golden_image.png"): writes the image when the static
\* image engine is installed, raises when it is not.
GoldenPng ==
  /\ pc = "golden_png"
  /\ \/ /\ outputs' = Append(outputs, [name |-> "./golden_image.png",
                                       content |-> FIGS[Len(FIGS)].fig])
        /\ pc' = "done"
        /\ exitMsg' = exitMsg
     \/ /\ outputs' = outputs
        /\ pc' = "error"
        /\ exitMsg' = "write_image raised"
  /\ UNCHANGED <<buildDir, chargesExists, locExists, csvCharges, csvLoc, charges, loc, df,
                 sankey, treemap, heat, figIdx, kpiFile, kpi_div, dashboard_html,
                 browserOpened>>

Next ==
  \/ CheckFiles
  \/ Load
  \/ NormaliseCharge
  \/ Merge
  \/ HarmoniseStep
  \/ SankeyStep
  \/ TreemapStep
  \/ HeatmapStep
  \/ ExportFig
  \/ KpiStep
  \/ WriteDashboard
  \/ AutoOpen
  \/ GoldenHtml
  \/ GoldenPng

Spec == Init /\ [][Next]_vars

----------------------------------------------------------------------------
\* Properties

Written == {outputs[i].name : i \in 1..Len(outputs)}

PosOf(name) == CHOOSE i \in 1..Len(outputs) : outputs[i].name = name

ChartFiles == {"outputs/fig_sankey.html", "outputs/fig_treemap.html",
               "outputs/fig_heatmap.html"}

\* Positions of the run between a step and the KPI step; from the KPI step
\* on no statement reads or assigns the frame or an aggregate.
AfterMerge == {"harmonise", "sankey", "treemap", "heatmap", "export", "kpi"}
AfterHarmonise == AfterMerge \ {"harmonise"}
AfterSankey == AfterHarmonise \ {"sankey"}
AfterTreemap == AfterSankey \ {"treemap"}
AfterHeatmap == AfterTreemap \ {"heatmap"}
AfterDashboard == {"open", "golden_html", "golden_png", "done", "error"}

\* C1: a missing input file, a charges table without a 'charge' column or a
\* table without provider_id ends the run at the check that finds it, with
\* a message, and no file has been written when the run ends there.
C1_FatalInputStopsBeforeAnyOutput ==
  /\ pc = "exit" => exitMsg # "" /\ outputs = <<>>
  /\ (pc # "start" /\ (~chargesExists \/ ~locExists)) => pc = "exit"
  /\ (pc \notin {"start", "load", "normalise"} /\ FindChargeCol(csvCharges.cols) = NoCol)
       => pc = "exit"
  /\ (pc \notin {"start", "load", "normalise", "merge"} /\ ~HasProviderId(csvCharges, csvLoc))
       => pc = "exit"

C1_Witness ==
  /\ pc = "exit"
  /\ chargesExists /\ locExists
  /\ FindChargeCol(csvCharges.cols) # NoCol
  /\ "provider_id" \notin Range(csvLoc.cols)
  /\ outputs = <<>>

\* A harmonised row whose provider_id is in no row of the locations table.
Unmatched(r) == \A i \in 1..Len(csvLoc.rows) : csvLoc.rows[i]["provider_id"] # r["provider_id"]

\* C2: every harmonised row whose provider_id matches no provider has
\* provider_city = "Unknown City".
C2_UnmatchedRowsGetSentinelCity ==
  pc \in AfterHarmonise =>
    \A i \in 1..Len(df.rows) :
      Unmatched(df.rows[i]) => df.rows[i]["provider_city"] = "Unknown City"

\* C3: a run that completes has written exactly the three chart documents
\* and the dashboard, the dashboard after the three charts.
C3_ExactlyFourArtifacts ==
  pc = "done" =>
    /\ Written = ChartFiles \cup {"outputs/dashboard.html"}
    /\ Len(outputs) = 4
    /\ \A f \in ChartFiles : PosOf(f) < PosOf("outputs/dashboard.html")

\* kpi.json is absent or malformed.
KpiBad(f) ==
  \/ ~f.exists
  \/ f.json # "mapping"
  \/ \E i \in 1..Len(f.items) : f.items[i].v.type # "number"

\* C4: with kpi.json absent or malformed the run raises no error, and the
\* dashboard is written with the three chart bodies and no KPI block, not
\* even a partly built one.
C4_BadKpiRaisesNoError ==
  (pc \in {"dashboard"} \cup AfterDashboard /\ KpiBad(kpiFile)) =>
    /\ kpi_div = <<>>
    /\ pc # "error"
    /\ exitMsg = ""
    /\ pc \in AfterDashboard =>
         /\ "outputs/dashboard.html" \in Written
         /\ dashboard_html.kpi_div = <<>>
         /\ dashboard_html.cards =
              <<fig_div("sankey_fig"), fig_div("treemap_fig"), fig_div("heatmap_fig")>>

LocIdsUnique ==
  \A i, j \in 1..Len(csvLoc.rows) :
    i # j => csvLoc.rows[i]["provider_id"] # csvLoc.rows[j]["provider_id"]

\* C5: with provider identifiers unique in the locations table the merged
\* frame has one row per charges row, in order, carrying that row's cells.
C5_LeftJoinKeepsEveryChargeRowOnce ==
  (pc \in AfterMerge /\ LocIdsUnique) =>
    /\ Len(df.rows) = Len(csvCharges.rows)
    /\ pc = "harmonise" =>
         \A i \in 1..Len(charges.rows) : \A k \in 1..Len(charges.cols) :
           df.rows[i][df.cols[k]] = charges.rows[i][charges.cols[k]]

C5_Witness ==
  /\ pc = "harmonise"
  /\ LocIdsUnique
  /\ Len(df.rows) >= 2
  /\ \E i \in 1..Len(df.rows) : Unmatched(df.rows[i])
  /\ \E i \in 1..Len(df.rows) : ~Unmatched(df.rows[i])

RECURSIVE SumValues(_)
SumValues(S) ==
  IF S = {} THEN 0 ELSE LET x == CHOOSE x \in S : TRUE IN x.value + SumValues(S \ {x})

\* C6: the charges of the treemap's leaf groups add up to the charge of the
\* whole harmonised frame.
C6_TreemapKeepsChargeMass ==
  pc \in AfterTreemap => SumValues(treemap) = SumCharge(Column(df, "charge"))

C6_Witness ==
  /\ pc \in AfterTreemap
  /\ Cardinality(treemap) >= 2
  /\ \E t \in treemap : /\ Len(GroupRows(df, treemap_path, t.path)) >= 2
                        /\ t.value >= 400

\* Positions of the triples from source name x to target name y.
LinksBetween(x, y) ==
  { i \in 1..Len(sankey.src) :
      /\ sankey.src[i] = FirstPos(sankey.all_nodes, x) - 1
      /\ sankey.trg[i] = FirstPos(sankey.all_nodes, y) - 1 }

\* Charge of the harmonised rows carrying x in column a and y in column b.
PairCharge(a, b, x, y) ==
  SumCharge(GroupCharges(df, <<a, b>>, <<x, y>>))

\* C7: for payer -> category and category -> city, every pair of values some
\* harmonised row carries has exactly one triple, valued with the summed
\* charge of the rows carrying the pair, rows of unknown providers
\* included; no triple goes from a payer to a city.
C7_OneTriplePerCarriedPair ==
  pc \in AfterSankey =>
    /\ \A s \in 1..2 : \A i \in 1..Len(df.rows) :
         LET a == sankey_dims[s]
             b == sankey_dims[s + 1]
             x == df.rows[i][a]
             y == df.rows[i][b]
         IN  /\ Cardinality(LinksBetween(x, y)) = 1
             /\ \A k \in LinksBetween(x, y) : sankey.val[k] = PairCharge(a, b, x, y)
    /\ \A i, j \in 1..Len(df.rows) :
         LinksBetween(df.rows[i]["payer_type"], df.rows[j]["provider_city"]) = {}

\* C8: the node list holds every value of the payer, category and city
\* columns once, in order of first appearance in payer ++ category ++ city;
\* the three triple lists are equally long and every triple's indices are
\* positions of the node list naming the values one harmonised row carries
\* in two adjacent dimensions.
C8_NodeIndexIsFirstSeenAndValid ==
  pc \in AfterSankey =>
    LET seen == Column(df, "payer_type") \o Column(df, "proc_category")
                  \o Column(df, "provider_city")
        n == Len(sankey.all_nodes)
    IN  /\ Range(sankey.all_nodes) = Range(seen)
        /\ \A i, j \in 1..n : i < j =>
             /\ sankey.all_nodes[i] # sankey.all_nodes[j]
             /\ FirstPos(seen, sankey.all_nodes[i]) < FirstPos(seen, sankey.all_nodes[j])
        /\ Len(sankey.src) = Len(sankey.trg) /\ Len(sankey.trg) = Len(sankey.val)
        /\ \A k \in 1..Len(sankey.src) :
             /\ sankey.src[k] \in 0..(n - 1)
             /\ sankey.trg[k] \in 0..(n - 1)
             /\ \E s \in 1..2 : \E i \in 1..Len(df.rows) :
                  /\ df.rows[i][sankey_dims[s]] = sankey.all_nodes[sankey.src[k] + 1]
                  /\ df.rows[i][sankey_dims[s + 1]] = sankey.all_nodes[sankey.trg[k] + 1]

C8_Witness ==
  /\ pc \in AfterSankey
  /\ Len(sankey.all_nodes) >= 6
  /\ Len(sankey.src) >= 4
  /\ Len(df.rows) >= 2

\* Median of a group's charges as the claim words it: the median of the
\* rows of the city and category when there are such rows, zero otherwise.
CellExpected(city, cat) ==
  FillNa(Median(GroupCharges(df, heat_keys, <<city, cat>>)))

\* C9: the heat matrix has one row per city and one column per category of
\* the harmonised frame, and every cell holds the group's median charge, or
\* zero when the group is empty.
C9_HeatMatrixIsDenseOverFrame ==
  pc \in AfterHeatmap =>
    /\ Range(heat.index) = Range(Column(df, "provider_city")) \ {NaN}
    /\ Range(heat.columns) = Range(Column(df, "proc_category"))
    /\ \A city \in Range(heat.index) : \A cat \in Range(heat.columns) :
         /\ <<city, cat>> \in DOMAIN heat.cell
         /\ heat.cell[<<city, cat>>] = CellExpected(city, cat)

\* The charges file as it would be with its amount column named "charge".
CanonCharges == RenameCol(csvCharges, csvCharges.cols[Len(csvCharges.cols)], "charge")

CanonFrame == Harmonise(MergeLeft(CanonCharges, csvLoc))

VariantName ==
  /\ csvCharges # NoTable
  /\ csvCharges.cols[Len(csvCharges.cols)] \in {"charge_amount", "Amount_Charged"}

\* C10: an amount column named with any name containing 'charge' in any
\* case is found and renamed to "charge", and the frame and the three
\* aggregates are those of the run on the file with the column named
\* "charge" from the start.
C10_VariantChargeNameRunsAsCanonical ==
  (VariantName /\ pc \notin {"load", "normalise"}) =>
    /\ exitMsg # "No column containing the word 'charge' found."
    /\ charges = CanonCharges
    /\ pc \in AfterHarmonise => df = CanonFrame
    /\ pc \in AfterSankey => sankey = BuildSankey(CanonFrame)
    /\ pc \in AfterTreemap => treemap = BuildTreemap(CanonFrame)
    /\ pc \in AfterHeatmap => heat = BuildHeat(CanonFrame)

C10_Witness ==
  /\ pc = "kpi"
  /\ csvCharges.cols[Len(csvCharges.cols)] = "Amount_Charged"
  /\ "charge" \in Range(df.cols)
  /\ \E i \in 1..Len(df.rows) : ~df.rows[i]["charge"].nan

====
